---- MODULE Spec2Model ----
(***************************************************************************)
(* Model of the tool execution router (server/core/tool_handler.py), the   *)
(* calendar operations (server/schedule.py), the note store                *)
(* (server/note_taking.py) and the weather lookup (server/weather.py).     *)
(*                                                                         *)
(* Python values are encoded as records carrying a "py" tag, so that any   *)
(* two of them can be compared:                                            *)
(*   Absent      the key is not in the mapping                             *)
(*   None        the value None                                            *)
(*   Str(s)      a text; s is the sequence of its characters               *)
(*   Txt(t)      a text that is only ever compared as a whole              *)
(*   Iso(...)    a text in ISO-8601 form, kept as its components           *)
(*   Dict(d, z)  a mapping with the keys dateTime and timeZone             *)
(* A datetime object is a record [day, sec, us, aware, off]: the local     *)
(* calendar day, the second of that day, the microsecond, and the UTC      *)
(* offset in minutes when the object carries a timezone.                   *)
(***************************************************************************)
EXTENDS Integers, Sequences, FiniteSets, TLC

(***************************************************************************)
(* Bounds of the model.                                                    *)
(***************************************************************************)
MaxEvents == 4
MaxWrites == 1
MaxExternal == 1
MaxTicks == 1
MaxNotes == 2
MaxOthers == 1

(***************************************************************************)
(* Python values.                                                          *)
(***************************************************************************)
Absent == [py |-> "absent"]
None == [py |-> "None"]
Str(s) == [py |-> "str", chars |-> s]
Txt(t) == [py |-> "str", text |-> t]
Iso(day, sec, us, suffix) == [py |-> "str", iso |-> [day |-> day, sec |-> sec, us |-> us, suffix |-> suffix]]
Dict(d, z) == [py |-> "dict", dateTime |-> d, timeZone |-> z]
EmptyStr == Str(<<>>)
EmptyDict == Dict(Absent, Absent)

IsDict(v) == v.py = "dict"
IsStr(v) == v.py = "str"
IsIso(v) == v.py = "str" /\ "iso" \in DOMAIN v
\* isinstance(v, str), for an argument that may be a datetime object
IsText(v) == "py" \in DOMAIN v /\ v.py = "str"

\* Python truth value of a value: None, '' and {} are false.
Truthy(v) ==
    CASE v.py = "absent" -> FALSE
      [] v.py = "None" -> FALSE
      [] v.py = "dict" -> v.dateTime # Absent \/ v.timeZone # Absent
      [] v.py = "str" -> v # EmptyStr
      [] OTHER -> TRUE

\* mapping.get(key, default)
Get(v, default) == IF v = Absent THEN default ELSE v

(***************************************************************************)
(* Texts: lower() and the substring test of the name filter.              *)
(***************************************************************************)
UpperChars == <<"A","B","C","D","E","F","G","H","I","J","K","L","M","N","O","P","Q","R","S","T","U","V","W","X","Y","Z">>
LowerChars == <<"a","b","c","d","e","f","g","h","i","j","k","l","m","n","o","p","q","r","s","t","u","v","w","x","y","z">>

LowerChar(c) ==
    IF \E i \in 1..26 : UpperChars[i] = c
    THEN LowerChars[CHOOSE i \in 1..26 : UpperChars[i] = c]
    ELSE c

Lower(s) == [i \in 1..Len(s) |-> LowerChar(s[i])]

\* needle in hay
Contains(hay, needle) ==
    \E off \in 0..(Len(hay) - Len(needle)) :
        \A i \in 1..Len(needle) : hay[off + i] = needle[i]

(***************************************************************************)
(* datetime objects.                                                       *)
(***************************************************************************)
SecondsPerDay == 86400
IstOffset == 330

DT(day, sec, us, aware, off) == [day |-> day, sec |-> sec, us |-> us, aware |-> aware, off |-> off]

\* dt + timedelta(seconds = n), n of either sign
AddSeconds(dt, n) ==
    LET total == dt.sec + n
    IN  [dt EXCEPT !.day = dt.day + (total \div SecondsPerDay),
                   !.sec = total % SecondsPerDay]

AddMinutes(dt, n) == AddSeconds(dt, 60 * n)
AddDays(dt, n) == [dt EXCEPT !.day = dt.day + n]

\* dt.replace(hour, minute, second, microsecond)
ReplaceTime(dt, h, mi, s, us) == [dt EXCEPT !.sec = 3600 * h + 60 * mi + s, !.us = us]
\* The time of day kept as it is.
StartOfDay_time_kept(dt) == dt
StartOfDay(dt) == ReplaceTime(dt, 0, 0, 0, 0)
EndOfDay_whole_second(dt) == ReplaceTime(dt, 23, 59, 59, 0)
EndOfDay(dt) == ReplaceTime(dt, 23, 59, 59, 999999)

Hour(dt) == dt.sec \div 3600
Minute(dt) == (dt.sec % 3600) \div 60

\* dt.astimezone(zone with the given offset), for an aware dt
AsTimezone(dt, off) == [AddMinutes(dt, off - dt.off) EXCEPT !.off = off]

\* The instant of an aware datetime, in seconds since day 0 UTC.
Instant(dt) == dt.day * SecondsPerDay + dt.sec - 60 * dt.off

Before(a, b) == Instant(a) < Instant(b) \/ (Instant(a) = Instant(b) /\ a.us < b.us)
NotAfter(a, b) == ~Before(b, a)

\* The text of a UTC offset as isoformat() writes it.
OffsetSuffix(off) ==
    CASE off = 0 -> "+00:00"
      [] off = 120 -> "+02:00"
      [] off = 330 -> "+05:30"
      [] off = 540 -> "+09:00"

SuffixOffset(suffix) ==
    CASE suffix = "+00:00" -> 0
      [] suffix = "+02:00" -> 120
      [] suffix = "+05:30" -> 330
      [] suffix = "+09:00" -> 540

\* dt.isoformat()
IsoFormat(dt) == Iso(dt.day, dt.sec, dt.us, IF dt.aware THEN OffsetSuffix(dt.off) ELSE "")

\* text.replace('Z', '+00:00')
ReplaceZ(v) == IF IsIso(v) /\ v.iso.suffix = "Z" THEN [v EXCEPT !.iso.suffix = "+00:00"] ELSE v

\* datetime.fromisoformat accepts the text (a trailing Z is rejected by
\* the interpreters older than 3.11; the inputs of the router carry none).
IsoParses(v) == IsIso(v) /\ v.iso.suffix # "Z"

\* datetime.fromisoformat(text), for a text that parses
FromIsoFormat(v) ==
    IF v.iso.suffix = ""
    THEN DT(v.iso.day, v.iso.sec, v.iso.us, FALSE, 0)
    ELSE DT(v.iso.day, v.iso.sec, v.iso.us, TRUE, SuffixOffset(v.iso.suffix))

(***************************************************************************)
(* Locale table and language detection (tool_handler.py).                  *)
(***************************************************************************)
Lang(name, weather, tz) == [name |-> name, weather_api_code |-> weather, timezone |-> tz]

SUPPORTED_LANGUAGES ==
    [c \in {"en","ta","hi","te","ml","kn","bn","mr","gu","pa","or","zh","ja","ko",
            "fr","de","es","it","pt","ru","ar","fa","tr"} |->
        CASE c = "en" -> Lang("English", "en", "Asia/Kolkata")
          [] c = "ta" -> Lang("Tamil", "ta", "Asia/Kolkata")
          [] c = "hi" -> Lang("Hindi", "hi", "Asia/Kolkata")
          [] c = "te" -> Lang("Telugu", "te", "Asia/Kolkata")
          [] c = "ml" -> Lang("Malayalam", "ml", "Asia/Kolkata")
          [] c = "kn" -> Lang("Kannada", "kn", "Asia/Kolkata")
          [] c = "bn" -> Lang("Bengali", "bn", "Asia/Kolkata")
          [] c = "mr" -> Lang("Marathi", "mr", "Asia/Kolkata")
          [] c = "gu" -> Lang("Gujarati", "gu", "Asia/Kolkata")
          [] c = "pa" -> Lang("Punjabi", "pa", "Asia/Kolkata")
          [] c = "or" -> Lang("Odia", "or", "Asia/Kolkata")
          [] c = "zh" -> Lang("Chinese", "zh_cn", "Asia/Shanghai")
          [] c = "ja" -> Lang("Japanese", "ja", "Asia/Tokyo")
          [] c = "ko" -> Lang("Korean", "kr", "Asia/Seoul")
          [] c = "fr" -> Lang("French", "fr", "Europe/Paris")
          [] c = "de" -> Lang("German", "de", "Europe/Berlin")
          [] c = "es" -> Lang("Spanish", "es", "Europe/Madrid")
          [] c = "it" -> Lang("Italian", "it", "Europe/Rome")
          [] c = "pt" -> Lang("Portuguese", "pt", "Europe/Lisbon")
          [] c = "ru" -> Lang("Russian", "ru", "Europe/Moscow")
          [] c = "ar" -> Lang("Arabic", "ar", "Asia/Riyadh")
          [] c = "fa" -> Lang("Persian", "fa", "Asia/Tehran")
          [] c = "tr" -> Lang("Turkish", "tr", "Europe/Istanbul")]

\* The answer of the language detector (seeded, hence a function of the
\* text): a language code, or "LangDetectException" when the text has no
\* features.  The codes nl and zh-cn are not in the locale table.
detect(text) ==
    CASE text = Txt("what is on my calendar") -> "en"
      [] text = Txt("kyou no yotei wo oshiete") -> "ja"
      [] text = Txt("wat staat er op mijn agenda") -> "nl"
      [] text = Txt("jintian de richeng") -> "zh-cn"
      [] text = Txt("12345") -> "LangDetectException"
      [] OTHER -> "en"

\* detect_language without the table check of line 177.
detect_language_unchecked(text) ==
    IF ~Truthy(text) \/ ~IsStr(text)
    THEN "en"
    ELSE LET lang_code == detect(text)
         IN  IF lang_code = "LangDetectException" THEN "en" ELSE lang_code

\* tool_handler.py lines 163-180.
detect_language(text) ==
    IF ~Truthy(text) \/ ~IsStr(text)
    THEN "en"
    ELSE LET lang_code == detect(text)
         IN  IF lang_code = "LangDetectException" THEN "en"
             ELSE IF lang_code \in DOMAIN SUPPORTED_LANGUAGES THEN lang_code ELSE "en"

\* The lookup with the first entry of the table as the default.
get_language_config_first(lang_code) ==
    IF lang_code \in DOMAIN SUPPORTED_LANGUAGES
    THEN SUPPORTED_LANGUAGES[lang_code]
    ELSE SUPPORTED_LANGUAGES["ta"]

\* tool_handler.py lines 182-187.
get_language_config(lang_code) ==
    IF lang_code \in DOMAIN SUPPORTED_LANGUAGES
    THEN SUPPORTED_LANGUAGES[lang_code]
    ELSE SUPPORTED_LANGUAGES["en"]

\* The language entry the router puts into a result.
LanguageEntry(code) == [code |-> code, name |-> get_language_config(code).name]

(***************************************************************************)
(* schedule.py: constants and time helpers.                                *)
(***************************************************************************)
TIMEZONE == "Asia/Kolkata"
SEARCH_WINDOW_DAYS == 365

ensure_ist_timezone(dt) ==
    IF ~dt.aware
    THEN [dt EXCEPT !.aware = TRUE, !.off = IstOffset]
    ELSE AsTimezone(dt, IstOffset)

(***************************************************************************)
(* The calendar backend: events().list / insert / update / delete.         *)
(* A stored event is [id, summary, description, location, start, end];     *)
(* start and end are Dict values whose dateTime carries a UTC offset.      *)
(***************************************************************************)
EventFields == {"summary", "description", "location", "start", "end"}

EventStart(e) == FromIsoFormat(e.start.dateTime)
EventEnd(e) == FromIsoFormat(e.end.dateTime)

\* The event of a set that orderBy='startTime' puts first.
FirstByStart(es) ==
    CHOOSE e \in es : \A f \in es :
        \/ Before(EventStart(e), EventStart(f))
        \/ (~Before(EventStart(f), EventStart(e)) /\ e.id <= f.id)

RECURSIVE SortByStart(_)
SortByStart(es) ==
    IF es = {} THEN <<>>
    ELSE LET e == FirstByStart(es) IN <<e>> \o SortByStart(es \ {e})

\* events().list(timeMin, timeMax, singleEvents, orderBy='startTime'):
\* the events that end after timeMin and start before timeMax.
BackendList(cal, timeMin, timeMax) ==
    SortByStart({e \in cal :
        /\ Before(FromIsoFormat(timeMin), EventEnd(e))
        /\ Before(EventStart(e), FromIsoFormat(timeMax))})

\* A time of a request body the backend can store: a mapping whose
\* dateTime is a well-formed text (a text without offset is read in the
\* zone named by timeZone).
BackendTimeOk(v) ==
    /\ IsDict(v)
    /\ v.dateTime # Absent
    /\ IsoParses(v.dateTime)
    /\ (v.dateTime.iso.suffix = "" => v.timeZone # Absent)

BackendTime(v) ==
    LET dt == FromIsoFormat(v.dateTime)
    IN  IF dt.aware THEN dt ELSE [dt EXCEPT !.aware = TRUE, !.off = IstOffset]

\* The backend rejects a body without start or end, and an empty range.
BackendAccepts(b) ==
    /\ BackendTimeOk(b.start)
    /\ BackendTimeOk(b.end)
    /\ NotAfter(BackendTime(b.start), BackendTime(b.end))

\* The event the backend stores for a body: texts with an offset.
StoredTime(v) == [v EXCEPT !.dateTime = IsoFormat(BackendTime(v))]

StoredEvent(id, b) ==
    [id |-> id, summary |-> b.summary, description |-> b.description,
     location |-> b.location, start |-> StoredTime(b.start), end |-> StoredTime(b.end)]

(***************************************************************************)
(* schedule.py: the search window and the name filter of get_events.       *)
(* A date argument is a datetime object or None.                           *)
(***************************************************************************)
\* The window with the buffer of lines 112-113 added to a name-only search too.
get_events_window_buffered(current_time, event_name, start_date, end_date) ==
    IF start_date = None /\ end_date = None
    THEN IF Truthy(event_name)
         THEN [timeMin |-> IsoFormat(AddMinutes(AddDays(current_time, -SEARCH_WINDOW_DAYS), -5)),
               timeMax |-> IsoFormat(AddMinutes(AddDays(current_time, SEARCH_WINDOW_DAYS), 5))]
         ELSE [timeMin |-> IsoFormat(StartOfDay(current_time)),
               timeMax |-> IsoFormat(EndOfDay(StartOfDay(current_time)))]
    ELSE LET s1 == IF start_date # None THEN ensure_ist_timezone(start_date) ELSE None
             e1 == IF end_date # None THEN ensure_ist_timezone(end_date) ELSE None
             e2 == IF s1 # None /\ e1 = None THEN EndOfDay(s1) ELSE e1
             s2 == IF ~(s1 # None /\ e1 = None) /\ e1 # None /\ s1 = None
                   THEN StartOfDay(e1) ELSE s1
         IN  [timeMin |-> IsoFormat(AddMinutes(s2, -5)),
              timeMax |-> IsoFormat(AddMinutes(e2, 5))]

\* Lines 76-117: the window [timeMin, timeMax] get_events queries.
get_events_window(current_time, event_name, start_date, end_date) ==
    IF start_date = None /\ end_date = None
    THEN IF Truthy(event_name)
         THEN [timeMin |-> IsoFormat(AddDays(current_time, -SEARCH_WINDOW_DAYS)),
               timeMax |-> IsoFormat(AddDays(current_time, SEARCH_WINDOW_DAYS))]
         ELSE [timeMin |-> IsoFormat(StartOfDay(current_time)),
               timeMax |-> IsoFormat(EndOfDay(StartOfDay(current_time)))]
    ELSE LET s1 == IF start_date # None THEN ensure_ist_timezone(start_date) ELSE None
             e1 == IF end_date # None THEN ensure_ist_timezone(end_date) ELSE None
             e2 == IF s1 # None /\ e1 = None THEN EndOfDay(s1) ELSE e1
             s2 == IF ~(s1 # None /\ e1 = None) /\ e1 # None /\ s1 = None
                   THEN StartOfDay(e1) ELSE s1
         IN  [timeMin |-> IsoFormat(AddMinutes(s2, -5)),
              timeMax |-> IsoFormat(AddMinutes(e2, 5))]

\* Containment on the summary with the case kept.
NameMatches_case_kept(event, event_name) ==
    Contains(Get(event.summary, EmptyStr).chars, event_name.chars)

\* Lines 136-141: case-insensitive containment on the summary.
NameMatches(event, event_name) ==
    Contains(Lower(Get(event.summary, EmptyStr).chars), Lower(event_name.chars))

name_filter(events, event_name) ==
    IF Truthy(event_name)
    THEN SelectSeq(events, LAMBDA e : NameMatches(e, event_name))
    ELSE events

\* Five minutes around the date, whatever its time of day.
target_window_time_only(current_time, event_date) ==
    IF event_date # None
    THEN LET d == ensure_ist_timezone(event_date)
         IN  [start_date |-> AddMinutes(d, -5), end_date |-> AddMinutes(d, 5)]
    ELSE [start_date |-> AddDays(current_time, -SEARCH_WINDOW_DAYS),
          end_date |-> AddDays(current_time, SEARCH_WINDOW_DAYS)]

\* Lines 211-233 and 339-372: the window update_event and delete_event
\* hand to get_events as start_date and end_date.
target_window(current_time, event_date) ==
    IF event_date # None
    THEN LET d == ensure_ist_timezone(event_date)
         IN  IF Hour(d) = 0 /\ Minute(d) = 0
             THEN [start_date |-> StartOfDay(d), end_date |-> EndOfDay(d)]
             ELSE [start_date |-> AddMinutes(d, -5), end_date |-> AddMinutes(d, 5)]
    ELSE [start_date |-> AddDays(current_time, -SEARCH_WINDOW_DAYS),
          end_date |-> AddDays(current_time, SEARCH_WINDOW_DAYS)]

(***************************************************************************)
(* schedule.py: request bodies of create_event and update_event.           *)
(***************************************************************************)
\* Lines 160-165 and 273-278: a start/end mapping brought to IST.
\* The conversion raises when dateTime is present and does not parse.
NormalizeRaises(value) ==
    value.dateTime # Absent /\ ~IsoParses(ReplaceZ(value.dateTime))

NormalizeTime(value) ==
    Dict(IF value.dateTime # Absent
         THEN IsoFormat(ensure_ist_timezone(FromIsoFormat(ReplaceZ(value.dateTime))))
         ELSE Absent,
         Txt(TIMEZONE))

\* Lines 158-174: the body create_event inserts (event_details, changed in place).
create_body_raises(event_details) ==
    \E k \in {"start", "end"} :
        IsDict(event_details[k]) /\ NormalizeRaises(event_details[k])

create_body(event_details) ==
    [k \in DOMAIN event_details |->
        IF k \in {"start", "end"} /\ IsDict(event_details[k])
        THEN NormalizeTime(event_details[k])
        ELSE event_details[k]]

\* The base body without the location of the event.
BaseBody_no_location(event) ==
    [summary |-> Get(event.summary, EmptyStr),
     start |-> Get(event.start, EmptyDict),
     end |-> Get(event.end, EmptyDict),
     description |-> Get(event.description, EmptyStr),
     location |-> EmptyStr]

\* Lines 260-266: the body starts from the existing event.
BaseBody(event) ==
    [summary |-> Get(event.summary, EmptyStr),
     start |-> Get(event.start, EmptyDict),
     end |-> Get(event.end, EmptyDict),
     description |-> Get(event.description, EmptyStr),
     location |-> Get(event.location, EmptyStr)]

\* The overlay with a null value carried into the body like any other value.
Overlay_carry_null(key, old, value) ==
    IF value = Absent THEN old
    ELSE IF key \in {"start", "end"} /\ IsDict(value) THEN NormalizeTime(value)
    ELSE value

\* Lines 269-284: one item of updated_details laid over the body.
Overlay(key, old, value) ==
    IF value = Absent THEN old
    ELSE IF value = None THEN Absent
    ELSE IF key \in {"start", "end"} /\ IsDict(value) THEN NormalizeTime(value)
    ELSE value

\* Lines 287-290: timeZone forced on a start/end that is present and true.
ForceZone(key, value) ==
    IF key \in {"start", "end"} /\ value # Absent /\ Truthy(value)
    THEN [value EXCEPT !.timeZone = Txt(TIMEZONE)]
    ELSE value

\* The body without the re-population of start and end.
Required_skipped(key, value, event) == value

\* Lines 296-299: start and end taken from the event when missing or false.
Required(key, value, event) ==
    IF key \in {"start", "end"} /\ (value = Absent \/ ~Truthy(value))
    THEN Get(event[key], EmptyDict)
    ELSE value

\* The loop raises on a dateTime that does not parse, and line 288/290
\* raises on a start/end that is a non-empty text (item assignment).
update_body_raises(event, updated_details) ==
    \/ \E k \in {"start", "end"} :
          IsDict(updated_details[k]) /\ NormalizeRaises(updated_details[k])
    \/ \E k \in {"start", "end"} :
          LET v == Overlay(k, BaseBody(event)[k], updated_details[k])
          IN  v # Absent /\ Truthy(v) /\ ~IsDict(v)

update_body(event, updated_details) ==
    [k \in EventFields |->
        Required(k, ForceZone(k, Overlay(k, BaseBody(event)[k], updated_details[k])), event)]

\* updated_details after the loop: its start/end mappings are changed in place.
update_details_after(updated_details) ==
    [k \in DOMAIN updated_details |->
        IF k \in {"start", "end"} /\ IsDict(updated_details[k])
        THEN NormalizeTime(updated_details[k])
        ELSE updated_details[k]]

\* The last element of the resolver's result instead of the first.
first_match_last(found) == found[Len(found)]

\* Lines 256 and 398: the target is the first element of the resolver's result.
first_match(found) == found[1]

\* Lines 421-426: the snapshot delete_event returns.
delete_snapshot(event) ==
    [id |-> event.id, summary |-> Get(event.summary, None),
     start |-> Get(event.start, None), end |-> Get(event.end, None)]

(***************************************************************************)
(* note_taking.py: the note store file.  The file is missing, holds a      *)
(* list of notes, holds JSON that is not a list (an object), holds text    *)
(* that is not JSON, or holds bytes that do not decode as text.            *)
(***************************************************************************)
NotesFile(kind, notes) == [kind |-> kind, notes |-> notes]

\* _write_notes: the write succeeds or fails (the failure is swallowed).
write_notes(file, notes, ok) == IF ok THEN NotesFile("list", notes) ELSE file

\* _ensure_notes_file raises on a file it can open but not decode: only
\* json.JSONDecodeError is caught.
ensure_notes_file_raises(file) == file.kind = "undecodable"

ensure_notes_file(file, ok) ==
    IF file.kind \in {"missing", "nonlist", "badjson"}
    THEN write_notes(file, <<>>, ok)
    ELSE file

\* _read_notes: every failure reads as the empty list.
read_notes(file) == IF file.kind = "list" THEN file.notes ELSE <<>>

\* Iterating the JSON object of a non-list file hands out its keys, and
\* note.get on a key raises.
ReadIsObject(file) == file.kind = "nonlist"

HasNote(notes, note_name) == \E i \in 1..Len(notes) : notes[i].note_name = note_name
FirstNote(notes, note_name) == CHOOSE i \in 1..Len(notes) :
    /\ notes[i].note_name = note_name
    /\ \A j \in 1..(i - 1) : notes[j].note_name # note_name

(***************************************************************************)
(* Results.  A result is a mapping with the keys below (Absent when the    *)
(* key is not there), a list, or another JSON value.                       *)
(***************************************************************************)
Msg(text, arg) == [py |-> "str", text |-> text, arg |-> arg]
Bool(b) == [py |-> "bool", b |-> b]

Mapping(error, success, message, data) ==
    [shape |-> "mapping", error |-> error, success |-> success,
     message |-> message, data |-> data, language |-> Absent]

ErrorResult(text, arg) == Mapping(Msg(text, arg), Absent, Absent, Absent)
Failure_as_error(text, arg) == Mapping(Msg(text, arg), Absent, Absent, Absent)
Failure(text, arg) == Mapping(Absent, Bool(FALSE), Msg(text, arg), None)
Success(text, arg, data) == Mapping(Absent, Bool(TRUE), Msg(text, arg), data)
ListResult(items) ==
    [shape |-> "list", error |-> Absent, success |-> Absent,
     message |-> Absent, data |-> [items |-> items], language |-> Absent]
ValueResult ==
    [shape |-> "value", error |-> Absent, success |-> Absent,
     message |-> Absent, data |-> Absent, language |-> Absent]
NoResult ==
    [shape |-> "none", error |-> Absent, success |-> Absent,
     message |-> Absent, data |-> Absent, language |-> Absent]

\* The language entry put into a mapping, a list handed on as it is.
AddLanguage_no_wrap(r, code) ==
    IF r.shape = "mapping" THEN [r EXCEPT !.language = LanguageEntry(code)] ELSE r

\* tool_handler.py lines 397-410 (and 211-215, 298-302, 447-451): the
\* language entry is put into a mapping; a list is wrapped.
AddLanguage(r, code) ==
    IF r.shape = "mapping" THEN [r EXCEPT !.language = LanguageEntry(code)]
    ELSE IF r.shape = "list"
         THEN [Mapping(Absent, Absent, Absent, [events |-> r.data.items])
                  EXCEPT !.language = LanguageEntry(code)]
         ELSE r

(***************************************************************************)
(* Tool names (tool_handler.py lines 204-305, config.py lines 94-99).      *)
(***************************************************************************)
NoteTools == {"add_note", "get_note", "get_all_notes", "delete_note"}
CalendarTools == {"create_event", "update_event", "delete_event", "get_events", "get_all_events"}
LocalTools == NoteTools \cup {"get_date_and_time", "get_weather"} \cup CalendarTools
CLOUD_FUNCTIONS == {"get_weather", "get_weather_forecast", "get_next_appointment", "get_past_appointments"}
\* Every name of CLOUD_FUNCTIONS goes to its endpoint.
RemoteTools_every_endpoint == CLOUD_FUNCTIONS
RemoteTools == CLOUD_FUNCTIONS \ LocalTools
UnknownTools == {"send_email", "Add_Note", ""}

(***************************************************************************)
(* The arguments of a tool call: a mapping with the keys below.            *)
(***************************************************************************)
ParamKeys == {"query", "note_name", "content", "timezone", "event_name", "event_date",
              "updated_details", "start_date", "end_date", "summary", "description",
              "location", "start", "end", "language", "language_config"}

NoParams == [k \in ParamKeys |-> Absent]
NoDetails == [k \in EventFields |-> Absent]
Details(d) == d @@ NoDetails
Params(p) == p @@ NoParams

\* Texts used as inputs.
Sync == Str(<<"S", "y", "n", "c">>)
SyncUp == Str(<<"s", "y", "n", "c", " ", "u", "p">>)
Standup == Str(<<"S", "t", "a", "n", "d", "u", "p">>)
NameSync == Str(<<"s", "y", "n", "c">>)
NameStand == Str(<<"S", "T", "A", "N", "D">>)
NameNoMatch == Str(<<"x">>)
TextB == Str(<<"B">>)
TextX == Str(<<"X">>)
TextD == Str(<<"D">>)
TextSoon == Str(<<"s", "o", "o", "n">>)
Malformed == Txt("next friday")

QueryEnglish == Txt("what is on my calendar")
QueryJapanese == Txt("kyou no yotei wo oshiete")
QueryDutch == Txt("wat staat er op mijn agenda")
QueryChinese == Txt("jintian de richeng")
QueryDigits == Txt("12345")
QueryNumber == [py |-> "int", n |-> 7]

\* Times used as inputs; Today is the day of the initial clock.
Today == 1000
At(h, mi) == 3600 * h + 60 * mi
NowInit == DT(Today, At(9, 0), 0, TRUE, IstOffset)
TickMinutes == 720

\* The calendar at the start: two events whose summary contains "sync" on
\* the same day, the second written by a client in another zone, and an
\* event at midnight of the next day without timeZone.
Event1 ==
    [id |-> 1, summary |-> Sync, description |-> Absent, location |-> TextX,
     start |-> Dict(Iso(Today, At(10, 0), 0, "+05:30"), Txt("Asia/Kolkata")),
     end |-> Dict(Iso(Today, At(11, 0), 0, "+05:30"), Txt("Asia/Kolkata"))]
Event2 ==
    [id |-> 2, summary |-> SyncUp, description |-> TextD, location |-> Absent,
     start |-> Dict(Iso(Today, At(17, 30), 0, "+09:00"), Txt("Asia/Tokyo")),
     end |-> Dict(Iso(Today, At(18, 30), 0, "+09:00"), Txt("Asia/Tokyo"))]
Event3 ==
    [id |-> 3, summary |-> Standup, description |-> Absent, location |-> Absent,
     start |-> Dict(Iso(Today + 1, At(0, 0), 0, "+05:30"), Absent),
     end |-> Dict(Iso(Today + 1, At(0, 30), 0, "+05:30"), Absent)]
InitialCalendar == {Event1, Event2, Event3}

(***************************************************************************)
(* State.                                                                  *)
(***************************************************************************)
VARIABLES
    calendar,       \* the events the backend stores
    nextId,         \* the id the backend gives to the next event
    writes,         \* calendar writes made by tool calls so far
    externals,      \* calendar writes made by another writer so far
    notesFile,      \* the note store file
    now,            \* the clock
    ticks,          \* steps of the clock so far
    others,         \* steps other invocations of the event loop took so far
    pc,             \* position of the invocation in flight
    caller,         \* "router": execute_tool; "direct": a call of schedule.py
    tool,           \* tool name of the invocation
    request,        \* the arguments mapping as the caller passed it
    params,         \* its arguments mapping (changed in place by the code)
    detected_lang,  \* language code resolved for the invocation
    events,         \* result of the resolver inside update_event/delete_event
    body,           \* request body of the pending insert/update call
    calls,          \* backend calls issued by the invocation, in order,
                    \* each with whether it raised
    handler,        \* what the handler produced: none, mapping, list, value
    result          \* what the invocation returned

backendVars == <<calendar, nextId, writes, externals>>
envVars == <<notesFile, now, ticks, others>>
invVars == <<pc, caller, tool, request, params, detected_lang, events, body, calls, handler, result>>
vars == <<calendar, nextId, writes, externals, notesFile, now, ticks, others,
          pc, caller, tool, request, params, detected_lang, events, body, calls,
          handler, result>>

Call(op, id, b, timeMin, timeMax) ==
    [op |-> op, id |-> id, body |-> b, timeMin |-> timeMin, timeMax |-> timeMax,
     raised |-> FALSE]
ListCall(w) == Call("list", 0, Absent, w.timeMin, w.timeMax)
InsertCall(b) == Call("insert", 0, b, Absent, Absent)
UpdateCall(id, b) == Call("update", id, b, Absent, Absent)
DeleteCall(id) == Call("delete", id, Absent, Absent, Absent)

InitialNotesFiles ==
    {NotesFile("missing", <<>>), NotesFile("list", <<>>), NotesFile("nonlist", <<>>),
     NotesFile("badjson", <<>>), NotesFile("undecodable", <<>>)}

Init ==
    /\ calendar = InitialCalendar
    /\ nextId = 4
    /\ writes = 0
    /\ externals = 0
    /\ notesFile \in InitialNotesFiles
    /\ now = NowInit
    /\ ticks = 0
    /\ others = 0
    /\ pc = "idle"
    /\ caller = "router"
    /\ tool = ""
    /\ request = NoParams
    /\ params = NoParams
    /\ detected_lang = "en"
    /\ events = <<>>
    /\ body = Absent
    /\ calls = <<>>
    /\ handler = "none"
    /\ result = NoResult

Ready == pc = "idle"

(***************************************************************************)
(* execute_tool, lines 191-201: language detection and the construction    *)
(* of the note store, which run for every tool name.                       *)
(***************************************************************************)
LangOf(p) == detect_language(Get(p.query, EmptyStr))

\* Outcomes of a file write: it is attempted only when needed.
WriteOutcomes(attempted) == IF attempted THEN BOOLEAN ELSE {TRUE}
EnsureWrites(file) == file.kind \in {"missing", "nonlist", "badjson"}

Begin(t, p, ok) ==
    /\ ~ensure_notes_file_raises(notesFile)
    /\ caller' = "router"
    /\ request' = p
    /\ tool' = t
    /\ detected_lang' = LangOf(p)
    /\ notesFile' = ensure_notes_file(notesFile, ok)
    /\ UNCHANGED <<now, ticks, others>>

\* The invocation returns r without a backend call.
Return(p, h, r) ==
    /\ pc' = "done"
    /\ params' = p
    /\ events' = <<>>
    /\ body' = Absent
    /\ calls' = <<>>
    /\ handler' = h
    /\ result' = r

\* Lines 463-465: the outer handler turns any exception into an error result.
OuterCatch(exc) == ErrorResult("Tool execution failed: ", exc)

AllTools == LocalTools \cup RemoteTools \cup UnknownTools

\* NoteTaking() raises: no branch is reached, whatever the tool.
ConstructorRaises ==
    /\ Ready
    /\ ensure_notes_file_raises(notesFile)
    /\ \E t \in AllTools, q \in {Absent, QueryJapanese} :
        /\ caller' = "router"
        /\ request' = Params([query |-> q])
        /\ tool' = t
        /\ detected_lang' = LangOf(Params([query |-> q]))
        /\ Return(Params([query |-> q]), "none", OuterCatch("UnicodeDecodeError"))
        /\ UNCHANGED <<backendVars, envVars>>

(***************************************************************************)
(* Note tools (tool_handler.py lines 204-261, note_taking.py).             *)
(***************************************************************************)
NoteNames == {Txt("n1"), Txt("n2")}
NoteContents == {Txt("a"), Txt("b")}

Note(name, content, created, updated) ==
    [note_name |-> name, content |-> content, created_at |-> created, updated_at |-> updated]

\* The note appended whether or not the name is there.
notes_after_add_appended(notes, note_name, content, t) ==
    Append(notes, Note(note_name, content, t, t))

\* add_note, lines 82-102: the list after the update or the append.
notes_after_add(notes, note_name, content, t) ==
    IF HasNote(notes, note_name)
    THEN [notes EXCEPT ![FirstNote(notes, note_name)] =
             [@ EXCEPT !.content = content, !.updated_at = t]]
    ELSE Append(notes, Note(note_name, content, t, t))

add_note_valid(note_name, content) ==
    /\ Truthy(note_name) /\ IsStr(note_name)
    /\ Truthy(content) /\ IsStr(content)

add_note(file, note_name, content, t, ok) ==
    IF ~(Truthy(note_name) /\ IsStr(note_name))
    THEN Failure("Note name is required and must be a string", "")
    ELSE IF ~(Truthy(content) /\ IsStr(content))
    THEN Failure("Content is required and must be a string", "")
    ELSE IF ReadIsObject(file)
    THEN Failure("Error adding note: ", "AttributeError")
    ELSE IF ok
    THEN Success(IF HasNote(read_notes(file), note_name)
                 THEN "Note updated successfully" ELSE "Note created successfully", "",
                 [note |-> [note_name |-> note_name, content |-> content, updated_at |-> t]])
    ELSE Failure("Failed to save note", "")

add_note_writes(file, note_name, content) ==
    add_note_valid(note_name, content) /\ ~ReadIsObject(file)

get_note(file, note_name) ==
    IF ReadIsObject(file)
    THEN Failure("Error retrieving note: ", "AttributeError")
    ELSE IF HasNote(read_notes(file), note_name)
    THEN Success("Note found", "",
                 [note |-> read_notes(file)[FirstNote(read_notes(file), note_name)]])
    ELSE Failure("No note found with name: ", "")

get_all_notes(file) ==
    Success("Found notes", "", [notes |-> read_notes(file), object |-> ReadIsObject(file)])

notes_after_delete(notes, note_name) ==
    SelectSeq(notes, LAMBDA n : n.note_name # note_name)

delete_note_writes(file, note_name) ==
    /\ ~ReadIsObject(file)
    /\ Len(notes_after_delete(read_notes(file), note_name)) # Len(read_notes(file))

delete_note(file, note_name, ok) ==
    IF ReadIsObject(file)
    THEN Failure("Error deleting note: ", "AttributeError")
    ELSE IF ~delete_note_writes(file, note_name)
    THEN Failure("No note found with name: ", "")
    ELSE IF ok
    THEN Success("Note deleted successfully", "", [deleted_note |-> note_name])
    ELSE Failure("Failed to save notes after deletion", "")

AddNote ==
    /\ Ready
    /\ ~ensure_notes_file_raises(notesFile)
    /\ \E name \in NoteNames \cup {Absent, EmptyStr}, content \in NoteContents \cup {Absent},
          q \in {Absent, QueryJapanese} :
       \E ok1 \in WriteOutcomes(EnsureWrites(notesFile)) :
       LET p == Params([query |-> q, note_name |-> name, content |-> content])
           file == ensure_notes_file(notesFile, ok1)
           n == Get(name, None)
           c == Get(content, None)
       IN  \E ok2 \in WriteOutcomes(add_note_writes(file, n, c)) :
           LET after == IF add_note_writes(file, n, c)
                        THEN write_notes(file, notes_after_add(read_notes(file), n, c, IsoFormat(now)), ok2)
                        ELSE file
           IN  /\ Len(after.notes) <= MaxNotes
               /\ caller' = "router"
               /\ request' = p
               /\ tool' = "add_note"
               /\ detected_lang' = LangOf(p)
               /\ notesFile' = after
               /\ Return(p, "mapping", AddLanguage(add_note(file, n, c, IsoFormat(now), ok2), LangOf(p)))
               /\ UNCHANGED <<backendVars, now, ticks, others>>

GetNote ==
    /\ Ready
    /\ \E name \in NoteNames \cup {Absent}, q \in {Absent, QueryJapanese} :
       \E ok1 \in WriteOutcomes(EnsureWrites(notesFile)) :
       LET p == Params([query |-> q, note_name |-> name])
       IN  /\ Begin("get_note", p, ok1)
           /\ Return(p, "mapping",
                     AddLanguage(get_note(ensure_notes_file(notesFile, ok1), Get(name, None)), LangOf(p)))
           /\ UNCHANGED backendVars

GetAllNotes ==
    /\ Ready
    /\ \E q \in {Absent, QueryJapanese} :
       \E ok1 \in WriteOutcomes(EnsureWrites(notesFile)) :
       LET p == Params([query |-> q])
       IN  /\ Begin("get_all_notes", p, ok1)
           /\ Return(p, "mapping",
                     AddLanguage(get_all_notes(ensure_notes_file(notesFile, ok1)), LangOf(p)))
           /\ UNCHANGED backendVars

DeleteNote ==
    /\ Ready
    /\ ~ensure_notes_file_raises(notesFile)
    /\ \E name \in NoteNames \cup {Absent}, q \in {Absent, QueryJapanese} :
       \E ok1 \in WriteOutcomes(EnsureWrites(notesFile)) :
       LET p == Params([query |-> q, note_name |-> name])
           file == ensure_notes_file(notesFile, ok1)
           n == Get(name, None)
       IN  \E ok2 \in WriteOutcomes(delete_note_writes(file, n)) :
           /\ caller' = "router"
           /\ request' = p
           /\ tool' = "delete_note"
           /\ detected_lang' = LangOf(p)
           /\ notesFile' = IF delete_note_writes(file, n)
                           THEN write_notes(file, notes_after_delete(read_notes(file), n), ok2)
                           ELSE file
           /\ Return(p, "mapping", AddLanguage(delete_note(file, n, ok2), LangOf(p)))
           /\ UNCHANGED <<backendVars, now, ticks, others>>

(***************************************************************************)
(* Date and time, weather, unknown tools (lines 263-303, 456-458).         *)
(***************************************************************************)
KnownZones == {"Asia/Kolkata", "Asia/Tokyo", "Europe/Paris"}
ZoneInfoOk(z) == IsStr(z) /\ "text" \in DOMAIN z /\ z.text \in KnownZones

Queries == {Absent, EmptyStr, QueryEnglish, QueryJapanese, QueryDutch, QueryChinese,
            QueryDigits, QueryNumber}

get_date_and_time(p, lang_code) ==
    LET timezone == Get(p.timezone, Txt(get_language_config(lang_code).timezone))
    IN  [Mapping(Absent, Absent, Absent,
                 [timezone |-> IF ZoneInfoOk(timezone) THEN timezone
                               ELSE Txt(get_language_config(lang_code).timezone)])
            EXCEPT !.language = LanguageEntry(lang_code)]

GetDateAndTime ==
    /\ Ready
    /\ \E q \in Queries, z \in {Absent, Txt("Europe/Paris"), Txt("Mars/Phobos")} :
       \E ok1 \in WriteOutcomes(EnsureWrites(notesFile)) :
       LET p == Params([query |-> q, timezone |-> z])
       IN  /\ Begin("get_date_and_time", p, ok1)
           /\ Return(p, "mapping", get_date_and_time(p, LangOf(p)))
           /\ UNCHANGED backendVars

\* weather.py line 8 reads the name city, which line 5 no longer binds:
\* get_weather raises NameError for every argument.
get_weather_raises(weather_params) == TRUE

GetWeather ==
    /\ Ready
    /\ \E q \in {Absent, QueryJapanese} :
       \E ok1 \in WriteOutcomes(EnsureWrites(notesFile)) :
       LET p == Params([query |-> q])
       IN  /\ Begin("get_weather", p, ok1)
           /\ get_weather_raises(p)
           /\ Return(p, "none", OuterCatch("NameError"))
           /\ UNCHANGED backendVars

UnknownTool ==
    /\ Ready
    /\ \E t \in UnknownTools, q \in Queries :
       \E ok1 \in WriteOutcomes(EnsureWrites(notesFile)) :
       LET p == Params([query |-> q])
       IN  /\ Begin(t, p, ok1)
           /\ Return(p, "none", ErrorResult("Unknown tool: ", t))
           /\ UNCHANGED backendVars

(***************************************************************************)
(* Remote endpoints (lines 421-455, 460-462).                              *)
(***************************************************************************)
RemoteCall ==
    /\ Ready
    /\ \E t \in RemoteTools, q \in {Absent, QueryJapanese} :
       \E ok1 \in WriteOutcomes(EnsureWrites(notesFile)) :
       LET p == Params([query |-> q])
       IN  /\ Begin(t, p, ok1)
           /\ pc' = "http"
           /\ params' = [p EXCEPT !.language = Txt(LangOf(p)),
                                  !.language_config = [py |-> "dict", code |-> LangOf(p)]]
           /\ events' = <<>>
           /\ body' = Absent
           /\ calls' = <<>>
           /\ handler' = "none"
           /\ result' = NoResult
           /\ UNCHANGED backendVars

\* The answer of the endpoint: a network failure, a status other than
\* 200, or status 200 with a body that is a JSON object, a JSON array,
\* another JSON value, or not JSON.
RemoteAnswers == {"ClientError", "status500", "object", "array", "scalar", "notjson"}

remote_result(answer, lang_code) ==
    CASE answer = "ClientError" -> ErrorResult("Failed to call cloud function: ", "ClientError")
      [] answer = "status500" -> ErrorResult("Cloud function returned status ", "500")
      [] answer = "object" -> AddLanguage(Mapping(Absent, Absent, Absent, [json |-> "object"]), lang_code)
      [] answer = "array" -> ListResult(<<>>)
      [] answer = "scalar" -> ValueResult
      [] answer = "notjson" -> ErrorResult("Invalid JSON response from cloud function: ", "JSONDecodeError")

RemoteResponse ==
    /\ pc = "http"
    /\ \E answer \in RemoteAnswers :
        /\ pc' = "done"
        /\ handler' = CASE answer = "object" -> "mapping"
                        [] answer = "array" -> "list"
                        [] answer = "scalar" -> "value"
                        [] OTHER -> "none"
        /\ result' = remote_result(answer, detected_lang)
        /\ UNCHANGED <<backendVars, envVars, caller, tool, request, params, detected_lang, events, body, calls>>

(***************************************************************************)
(* Calendar tools through the router (tool_handler.py lines 305-419).      *)
(***************************************************************************)
\* Lines 324-327 and 342-345: mapping[key]['timeZone'] = zone, for a key
\* that is present.  The item assignment raises TypeError on a value that
\* is not a mapping.
RouterZoneRaises(m) == \E k \in {"start", "end"} : m[k] # Absent /\ ~IsDict(m[k])

RouterZone(m, zone) ==
    [k \in DOMAIN m |->
        IF k \in {"start", "end"} /\ m[k] # Absent
        THEN [m[k] EXCEPT !.timeZone = Txt(zone)]
        ELSE m[k]]

\* A date argument of the router: a text handed to fromisoformat.
DateArg(v) == IF v = Absent THEN None ELSE FromIsoFormat(v)

\* The invocation goes on to a backend call.
Proceed(p, position, b, cs) ==
    /\ pc' = position
    /\ params' = p
    /\ events' = <<>>
    /\ body' = b
    /\ calls' = cs
    /\ handler' = "none"
    /\ result' = NoResult

\* What the caller receives for a handler result r: the router adds the
\* language entry, a direct caller of schedule.py gets r itself.
Delivered(r, via, lang_code) == IF via = "router" THEN AddLanguage(r, lang_code) ELSE r

ServiceError == ErrorResult("Failed to initialize calendar service", "")
CalendarCatch(exc) == ErrorResult("Calendar operation failed: ", exc)

\* Lines 318-320: get_calendar_service gave no service; the arguments are
\* not looked at.
CalendarServiceFails ==
    /\ Ready
    /\ \E t \in CalendarTools, q \in {Absent, QueryJapanese} :
       \E ok1 \in WriteOutcomes(EnsureWrites(notesFile)) :
       LET p == Params([query |-> q])
       IN  /\ Begin(t, p, ok1)
           /\ Return(p, "none", ServiceError)
           /\ UNCHANGED backendVars

\* The validation with a name test for null only.
MissingCriteria_null_only(event_name, event_date) == event_name = None /\ event_date = None

\* schedule.py lines 200-205 and 328-333.
MissingCriteria(event_name, event_date) == ~Truthy(event_name) /\ event_date = None
ValidationFailure == Failure("Error: Either event_name or event_date must be provided", "")

\* The list query update_event and delete_event issue through get_events.
TargetQuery(event_name, event_date) ==
    LET w == target_window(now, event_date)
    IN  ListCall(get_events_window(now, event_name, w.start_date, w.end_date))

TimeAt(day, h, mi, suffix) == Dict(Iso(day, At(h, mi), 0, suffix), Absent)

CreateInputs ==
    {Params([summary |-> TextB, start |-> TimeAt(Today, 12, 0, ""), end |-> TimeAt(Today, 13, 0, "")]),
     Params([summary |-> TextB, query |-> QueryJapanese,
             start |-> TimeAt(Today, 16, 0, "+09:00"), end |-> TimeAt(Today, 17, 0, "+09:00")]),
     Params([summary |-> TextB, start |-> TimeAt(Today, 12, 0, "Z"), end |-> TimeAt(Today, 13, 0, "Z")]),
     Params([summary |-> TextB, start |-> Dict(Malformed, Absent), end |-> TimeAt(Today, 13, 0, "")]),
     Params([summary |-> TextB, start |-> None, end |-> TimeAt(Today, 13, 0, "")]),
     Params([summary |-> TextB, query |-> QueryJapanese]),
     Params([summary |-> TextB, start |-> TimeAt(Today, 13, 0, ""), end |-> TimeAt(Today, 12, 0, "")])}

DirectCreateInputs ==
    {Params([summary |-> TextB, start |-> TimeAt(Today, 12, 0, ""), end |-> TimeAt(Today, 13, 0, "")]),
     Params([summary |-> TextB, start |-> TextSoon, end |-> TimeAt(Today, 13, 0, "")]),
     Params([summary |-> TextB, start |-> TimeAt(Today, 12, 0, ""), end |-> Dict(Malformed, Absent)])}

CanWrite == writes < MaxWrites

\* create_event, schedule.py lines 156-179, up to the insert call.
CreateSteps(p, via) ==
    IF create_body_raises(p)
    THEN Return(p, "mapping", Delivered(Failure("Error creating event: ", "ValueError"), via, LangOf(p)))
    ELSE Proceed(create_body(p), "insert", create_body(p), <<InsertCall(create_body(p))>>)

CreateEvent ==
    /\ Ready
    /\ CanWrite
    /\ Cardinality(calendar) < MaxEvents
    /\ \E p \in CreateInputs :
       \E ok1 \in WriteOutcomes(EnsureWrites(notesFile)) :
        /\ Begin("create_event", p, ok1)
        /\ IF RouterZoneRaises(p) THEN Return(p, "none", CalendarCatch("TypeError"))
           ELSE CreateSteps(RouterZone(p, get_language_config(LangOf(p)).timezone), "router")
        /\ UNCHANGED backendVars

\* Criteria of update_event and delete_event: name and date arguments.
Criteria(name, date) == [event_name |-> name, event_date |-> date]
DateSync == Iso(Today, At(10, 0), 0, "")
DateSyncUp == Iso(Today, At(17, 30), 0, "+09:00")
DateMidnight == Iso(Today + 1, At(0, 0), 0, "")
\* 01:00 in Tokyo, which is 21:30 of the day before in Asia/Kolkata.
DateEarlyTokyo == Iso(Today, At(1, 0), 0, "+09:00")

OtherCriteria ==
    {Criteria(Absent, Absent), Criteria(EmptyStr, Absent), Criteria(NameNoMatch, Absent),
     Criteria(Absent, Malformed), Criteria(NameStand, DateSync), Criteria(Absent, DateMidnight),
     Criteria(NameSync, DateSyncUp)}

MainPatches == {Details([summary |-> TextB]), Details([summary |-> None, location |-> EmptyStr])}
TimePatch == Details([start |-> TimeAt(Today, 16, 0, "+09:00"), end |-> TimeAt(Today, 17, 0, "+09:00")])
OtherPatches ==
    {NoDetails, TimePatch,
     Details([description |-> None, location |-> TextB]),
     Details([start |-> None]),
     Details([end |-> EmptyStr]),
     Details([start |-> EmptyDict]),
     Details([start |-> TextSoon]),
     Details([start |-> TimeAt(Today, 12, 0, "")]),
     Details([end |-> TimeAt(Today + 1, 9, 0, "Z")]),
     Details([start |-> Dict(Malformed, Absent)])}

UpdateCase(q, c, d) == [query |-> q, criteria |-> c, details |-> d]
UpdateCases ==
    {UpdateCase(Absent, Criteria(NameSync, Absent), d) : d \in MainPatches \cup OtherPatches}
    \cup {UpdateCase(Absent, c, Details([summary |-> TextB])) : c \in OtherCriteria}
    \cup {UpdateCase(Absent, Criteria(NameSync, Absent), Absent),
          UpdateCase(QueryJapanese, Criteria(Absent, DateMidnight), TimePatch),
          UpdateCase(QueryJapanese, Criteria(NameSync, DateSyncUp), Details([location |-> None]))}

\* update_event, schedule.py lines 200-242, up to the list call.
UpdateSteps(p, event_name, event_date, via) ==
    IF MissingCriteria(event_name, event_date)
    THEN Return(p, "mapping", Delivered(ValidationFailure, via, LangOf(p)))
    ELSE Proceed(p, "list", Absent, <<TargetQuery(event_name, event_date)>>)

UpdateEvent ==
    /\ Ready
    /\ CanWrite
    /\ \E c \in UpdateCases :
       \E ok1 \in WriteOutcomes(EnsureWrites(notesFile)) :
       LET p == Params([query |-> c.query, event_name |-> c.criteria.event_name,
                        event_date |-> c.criteria.event_date, updated_details |-> c.details])
           updated_details == Get(p.updated_details, NoDetails)
           zone == get_language_config(LangOf(p)).timezone
       IN  /\ Begin("update_event", p, ok1)
           /\ IF p.event_date # Absent /\ ~IsoParses(p.event_date)
              THEN Return(p, "none", ErrorResult("Invalid event_date format. Use ISO format.", ""))
              ELSE IF RouterZoneRaises(updated_details)
              THEN Return(p, "none", CalendarCatch("TypeError"))
              ELSE UpdateSteps(IF p.updated_details = Absent THEN p
                               ELSE [p EXCEPT !.updated_details = RouterZone(updated_details, zone)],
                               Get(p.event_name, None), DateArg(p.event_date), "router")
           /\ UNCHANGED backendVars

DeleteCase(q, c) == [query |-> q, criteria |-> c]
DeleteCases ==
    {DeleteCase(Absent, c) :
        c \in OtherCriteria \cup {Criteria(NameSync, Absent), Criteria(NameSync, Malformed)}}
    \cup {DeleteCase(QueryJapanese, Criteria(NameSync, Absent))}

\* delete_event, schedule.py lines 328-381, up to the list call.
DeleteSteps(p, event_name, event_date, via) ==
    IF MissingCriteria(event_name, event_date)
    THEN Return(p, "mapping", Delivered(ValidationFailure, via, LangOf(p)))
    ELSE IF IsText(event_date) /\ ~IsoParses(ReplaceZ(event_date))
    THEN Return(p, "mapping", Delivered(Failure("Invalid date format: ", "ValueError"), via, LangOf(p)))
    ELSE Proceed(p, "list", Absent,
                 <<TargetQuery(event_name,
                               IF IsText(event_date)
                               THEN FromIsoFormat(ReplaceZ(event_date)) ELSE event_date)>>)

\* The router with a date that does not parse read as no date.
DeleteEventCall_date_dropped ==
    /\ Ready
    /\ \E c \in DeleteCases :
       \E ok1 \in WriteOutcomes(EnsureWrites(notesFile)) :
       LET p == Params([query |-> c.query, event_name |-> c.criteria.event_name,
                        event_date |-> c.criteria.event_date])
       IN  /\ Begin("delete_event", p, ok1)
           /\ DeleteSteps(p, Get(p.event_name, None),
                          IF p.event_date # Absent /\ ~IsoParses(p.event_date)
                          THEN None ELSE DateArg(p.event_date), "router")
           /\ UNCHANGED backendVars

\* tool_handler.py lines 355-369.
DeleteEventCall ==
    /\ Ready
    /\ \E c \in DeleteCases :
       \E ok1 \in WriteOutcomes(EnsureWrites(notesFile)) :
       LET p == Params([query |-> c.query, event_name |-> c.criteria.event_name,
                        event_date |-> c.criteria.event_date])
       IN  /\ Begin("delete_event", p, ok1)
           /\ IF p.event_date # Absent /\ ~IsoParses(p.event_date)
              THEN Return(p, "none", ErrorResult("Invalid event_date format. Use ISO format.", ""))
              ELSE DeleteSteps(p, Get(p.event_name, None), DateArg(p.event_date), "router")
           /\ UNCHANGED backendVars

\* The invocation, while the model lets tool calls write.
DeleteEvent ==
    /\ CanWrite
    /\ DeleteEventCall

\* Arguments of get_events: query, name, start and end.
Search(q, name, s, e) == [query |-> q, event_name |-> name, start_date |-> s, end_date |-> e]
SearchCases ==
    {Search(Absent, Absent, Absent, Absent), Search(QueryJapanese, NameSync, Absent, Absent),
     Search(Absent, Absent, DateSync, Absent), Search(Absent, NameSync, DateSync, Absent),
     Search(Absent, Absent, DateEarlyTokyo, Absent),
     Search(Absent, Absent, Absent, DateSyncUp), Search(Absent, Absent, DateSync, DateMidnight),
     Search(Absent, Absent, Absent, DateEarlyTokyo),
     Search(Absent, NameStand, DateSyncUp, DateMidnight),
     Search(Absent, Absent, Malformed, Absent), Search(Absent, Absent, DateSync, Malformed)}

GetEvents ==
    /\ Ready
    /\ \E c \in SearchCases :
       \E ok1 \in WriteOutcomes(EnsureWrites(notesFile)) :
       LET p == Params(c)
       IN  /\ Begin("get_events", p, ok1)
           /\ IF p.start_date # Absent /\ ~IsoParses(p.start_date)
              THEN Return(p, "none", ErrorResult("Invalid start_date format. Use ISO format.", ""))
              ELSE IF p.end_date # Absent /\ ~IsoParses(p.end_date)
              THEN Return(p, "none", ErrorResult("Invalid end_date format. Use ISO format.", ""))
              ELSE Proceed(p, "list", Absent,
                           <<ListCall(get_events_window(now, Get(p.event_name, None),
                                                        DateArg(p.start_date), DateArg(p.end_date)))>>)
           /\ UNCHANGED backendVars

\* get_all_events, schedule.py lines 442-462: the window of its list call.
get_all_events_window(current_time) ==
    [timeMin |-> IsoFormat(AddDays(current_time, -SEARCH_WINDOW_DAYS)),
     timeMax |-> IsoFormat(AddDays(current_time, SEARCH_WINDOW_DAYS))]

GetAllEvents ==
    /\ Ready
    /\ \E q \in {Absent, QueryJapanese} :
       \E ok1 \in WriteOutcomes(EnsureWrites(notesFile)) :
       LET p == Params([query |-> q])
       IN  /\ Begin("get_all_events", p, ok1)
           /\ Proceed(p, "list", Absent, <<ListCall(get_all_events_window(now))>>)
           /\ UNCHANGED backendVars

(***************************************************************************)
(* Direct calls of schedule.py (as its main() makes them): the arguments   *)
(* are passed as they are, dates as datetime objects, and the caller gets  *)
(* the result of the function itself.                                      *)
(***************************************************************************)
BeginDirect(t, p) ==
    /\ caller' = "direct"
    /\ request' = p
    /\ tool' = t
    /\ detected_lang' = "en"
    /\ UNCHANGED envVars

DateObject == DT(Today, At(10, 0), 0, FALSE, 0)
MidnightObject == DT(Today + 1, At(0, 0), 30, TRUE, IstOffset)

DirectCreate ==
    /\ Ready
    /\ CanWrite
    /\ Cardinality(calendar) < MaxEvents
    /\ \E p \in DirectCreateInputs :
        /\ BeginDirect("create_event", p)
        /\ CreateSteps(p, "direct")
        /\ UNCHANGED backendVars

DirectUpdateCases ==
    {UpdateCase(Absent, Criteria(NameSync, None), d) :
        d \in MainPatches \cup {Details([start |-> None]), Details([end |-> EmptyStr]),
                                Details([start |-> EmptyDict, end |-> None]),
                                Details([start |-> TextSoon])}}
    \cup {UpdateCase(Absent, Criteria(None, None), Details([summary |-> TextB])),
          UpdateCase(Absent, Criteria(EmptyStr, None), Details([summary |-> TextB])),
          UpdateCase(Absent, Criteria(None, DateObject), Details([start |-> EmptyStr])),
          UpdateCase(Absent, Criteria(None, MidnightObject), Details([end |-> None]))}

DirectUpdate ==
    /\ Ready
    /\ CanWrite
    /\ \E c \in DirectUpdateCases :
       LET p == Params([event_name |-> c.criteria.event_name,
                        event_date |-> c.criteria.event_date, updated_details |-> c.details])
       IN  /\ BeginDirect("update_event", p)
           /\ UpdateSteps(p, c.criteria.event_name, c.criteria.event_date, "direct")
           /\ UNCHANGED backendVars

DirectDeleteCases ==
    {Criteria(None, None), Criteria(EmptyStr, None), Criteria(NameSync, None),
     Criteria(None, DateObject), Criteria(None, Malformed), Criteria(None, DateSyncUp)}

DirectDeleteCall ==
    /\ Ready
    /\ \E c \in DirectDeleteCases :
       LET p == Params([event_name |-> c.event_name, event_date |-> c.event_date])
       IN  /\ BeginDirect("delete_event", p)
           /\ DeleteSteps(p, c.event_name, c.event_date, "direct")
           /\ UNCHANGED backendVars

DirectDelete ==
    /\ CanWrite
    /\ DirectDeleteCall

(***************************************************************************)
(* The backend answers the pending call.                                   *)
(***************************************************************************)
LastCall == calls[Len(calls)]

\* get_events lines 123-152: the answer filtered by name; a failure of the
\* call reads as no event.
Listed(failed, event_name) ==
    IF failed THEN <<>>
    ELSE name_filter(BackendList(calendar, LastCall.timeMin, LastCall.timeMax), event_name)

\* The pending call is answered: it raised or it returned.
Answered(failed) == [calls EXCEPT ![Len(calls)].raised = failed]

Finish(h, r) ==
    /\ pc' = "done"
    /\ handler' = h
    /\ result' = Delivered(r, caller, detected_lang)

GetEventsReturns ==
    /\ pc = "list"
    /\ \E failed \in BOOLEAN :
           /\ pc = "list"
           /\ tool = "get_events"
           /\ Finish("list", ListResult(Listed(failed, Get(params.event_name, None))))
           /\ calls' = Answered(failed)
           /\ UNCHANGED <<backendVars, envVars, caller, tool, request, params, detected_lang, events, body>>

GetAllEventsReturns ==
    /\ pc = "list"
    /\ \E failed \in BOOLEAN :
           /\ pc = "list"
           /\ tool = "get_all_events"
           /\ Finish("list", ListResult(Listed(failed, None)))
           /\ calls' = Answered(failed)
           /\ UNCHANGED <<backendVars, envVars, caller, tool, request, params, detected_lang, events, body>>

\* No match reported as a success.
NotFound_as_success == Success("No event found with ", "criteria", None)

\* schedule.py lines 244-254 and 385-395: the resolver matched no event.
NotFound == Failure("No event found with ", "criteria")

\* update_event lines 244-307: no match, or the body for the first match.
UpdateResolved ==
    /\ pc = "list"
    /\ \E failed \in BOOLEAN :
       LET found == Listed(failed, Get(params.event_name, None))
           event == first_match(found)
           updated_details == Get(params.updated_details, NoDetails)
       IN  /\ pc = "list"
           /\ tool = "update_event"
           /\ events' = found
           /\ IF found = <<>>
              THEN /\ Finish("mapping", NotFound)
                   /\ calls' = Answered(failed)
                   /\ UNCHANGED <<params, body>>
              ELSE IF update_body_raises(event, updated_details)
              THEN /\ Finish("mapping", Failure("Error updating event: ", "ValueError"))
                   /\ calls' = Answered(failed)
                   /\ UNCHANGED <<params, body>>
              ELSE /\ pc' = "update"
                   /\ body' = update_body(event, updated_details)
                   /\ calls' = Append(Answered(failed),
                                      UpdateCall(event.id, update_body(event, updated_details)))
                   /\ params' = IF params.updated_details = Absent THEN params
                                ELSE [params EXCEPT !.updated_details = update_details_after(updated_details)]
                   /\ UNCHANGED <<handler, result>>
           /\ UNCHANGED <<backendVars, envVars, caller, tool, request, detected_lang>>

\* delete_event lines 385-407.
DeleteResolved ==
    /\ pc = "list"
    /\ \E failed \in BOOLEAN :
       LET found == Listed(failed, Get(params.event_name, None))
       IN  /\ pc = "list"
           /\ tool = "delete_event"
           /\ events' = found
           /\ IF found = <<>>
              THEN /\ Finish("mapping", NotFound)
                   /\ calls' = Answered(failed)
              ELSE /\ pc' = "delete"
                   /\ calls' = Append(Answered(failed), DeleteCall(first_match(found).id))
                   /\ UNCHANGED <<handler, result>>
           /\ UNCHANGED <<backendVars, envVars, caller, tool, request, params, detected_lang, body>>

Stored(id) == {e \in calendar : e.id = id}

\* create_event lines 176-194.
InsertReturns ==
    /\ pc = "insert"
    /\ \E failed \in BOOLEAN :
           /\ pc = "insert"
           /\ IF ~failed /\ BackendAccepts(body)
              THEN /\ calendar' = calendar \cup {StoredEvent(nextId, body)}
                   /\ nextId' = nextId + 1
                   /\ writes' = writes + 1
                   /\ Finish("mapping", Success("Event created successfully: ", "id",
                                                [created_event |-> StoredEvent(nextId, body)]))
              ELSE /\ Finish("mapping", Failure("Error creating event: ", "HttpError"))
                   /\ UNCHANGED <<calendar, nextId, writes>>
           /\ calls' = Answered(failed \/ ~BackendAccepts(body))
           /\ UNCHANGED <<externals, envVars, caller, tool, request, params, detected_lang, events, body>>

\* The update refused when the stored event is no longer the listed one.
UpdateReturns_if_unchanged ==
    /\ pc = "update"
    /\ \E failed \in BOOLEAN :
           /\ pc = "update"
           /\ IF ~failed /\ Stored(LastCall.id) = {first_match(events)} /\ BackendAccepts(body)
              THEN /\ calendar' = (calendar \ Stored(LastCall.id)) \cup {StoredEvent(LastCall.id, body)}
                   /\ writes' = writes + 1
                   /\ Finish("mapping", Success("Event updated successfully: ", "id",
                                                [updated_event |-> StoredEvent(LastCall.id, body)]))
              ELSE /\ Finish("mapping", Failure("Error updating event: ", "HttpError"))
                   /\ UNCHANGED <<calendar, writes>>
           /\ calls' = Answered(failed \/ Stored(LastCall.id) = {} \/ ~BackendAccepts(body))
           /\ UNCHANGED <<nextId, externals, envVars, caller, tool, request, params, detected_lang, events, body>>

\* update_event lines 303-322.
UpdateReturns ==
    /\ pc = "update"
    /\ \E failed \in BOOLEAN :
           /\ pc = "update"
           /\ IF ~failed /\ Stored(LastCall.id) # {} /\ BackendAccepts(body)
              THEN /\ calendar' = (calendar \ Stored(LastCall.id)) \cup {StoredEvent(LastCall.id, body)}
                   /\ writes' = writes + 1
                   /\ Finish("mapping", Success("Event updated successfully: ", "id",
                                                [updated_event |-> StoredEvent(LastCall.id, body)]))
              ELSE /\ Finish("mapping", Failure("Error updating event: ", "HttpError"))
                   /\ UNCHANGED <<calendar, writes>>
           /\ calls' = Answered(failed \/ Stored(LastCall.id) = {} \/ ~BackendAccepts(body))
           /\ UNCHANGED <<nextId, externals, envVars, caller, tool, request, params, detected_lang, events, body>>

\* Every event the resolver found is removed.
DeleteReturns_every_match ==
    /\ pc = "delete"
    /\ \E failed \in BOOLEAN :
           /\ pc = "delete"
           /\ IF ~failed /\ Stored(LastCall.id) # {}
              THEN /\ calendar' = {e \in calendar : \A i \in 1..Len(events) : e.id # events[i].id}
                   /\ writes' = writes + 1
                   /\ Finish("mapping", Success("Event deleted successfully: ", "criteria",
                                                [deleted_event |-> delete_snapshot(first_match(events))]))
              ELSE /\ Finish("mapping", Failure("Error deleting event: ", "HttpError"))
                   /\ UNCHANGED <<calendar, writes>>
           /\ calls' = Answered(failed \/ Stored(LastCall.id) = {})
           /\ UNCHANGED <<nextId, externals, envVars, caller, tool, request, params, detected_lang, events, body>>

\* delete_event lines 404-436.
DeleteReturns ==
    /\ pc = "delete"
    /\ \E failed \in BOOLEAN :
           /\ pc = "delete"
           /\ IF ~failed /\ Stored(LastCall.id) # {}
              THEN /\ calendar' = calendar \ Stored(LastCall.id)
                   /\ writes' = writes + 1
                   /\ Finish("mapping", Success("Event deleted successfully: ", "criteria",
                                                [deleted_event |-> delete_snapshot(first_match(events))]))
              ELSE /\ Finish("mapping", Failure("Error deleting event: ", "HttpError"))
                   /\ UNCHANGED <<calendar, writes>>
           /\ calls' = Answered(failed \/ Stored(LastCall.id) = {})
           /\ UNCHANGED <<nextId, externals, envVars, caller, tool, request, params, detected_lang, events, body>>

(***************************************************************************)
(* Another writer of the calendar, and the end of an invocation.           *)
(***************************************************************************)
TextMoved == Str(<<"M", "o", "v", "e", "d">>)

ExternalWrite ==
    /\ externals < MaxExternal
    /\ \E e \in calendar, remove \in BOOLEAN :
           /\ externals' = externals + 1
           /\ calendar' = IF remove THEN calendar \ {e}
                          ELSE (calendar \ {e}) \cup {[e EXCEPT !.summary = TextMoved, !.location = TextMoved]}
           /\ UNCHANGED <<nextId, writes, envVars, invVars>>

\* The result has gone to the caller; the next tool call can come.
Continue ==
    /\ pc = "done"
    /\ pc' = "idle"
    /\ caller' = "router"
    /\ request' = NoParams
    /\ tool' = ""
    /\ params' = NoParams
    /\ detected_lang' = "en"
    /\ events' = <<>>
    /\ body' = Absent
    /\ calls' = <<>>
    /\ handler' = "none"
    /\ result' = NoResult
    /\ UNCHANGED <<backendVars, envVars>>

(***************************************************************************)
(* The event loop (server.py line 46: one asyncio loop for all clients).   *)
(* Another invocation takes a step only while this one is not running: it  *)
(* has not started, or it is suspended at the await of its HTTP request    *)
(* (tool_handler.py lines 433-445).  The calendar branch (lines 305-419)   *)
(* and schedule.py hold no await: their backend calls block the loop.      *)
(***************************************************************************)
Suspended == pc = "http"

OtherInvocationRuns ==
    /\ Ready \/ Suspended
    /\ others < MaxOthers
    /\ others' = others + 1
    /\ UNCHANGED <<backendVars, notesFile, now, ticks, invVars>>

(***************************************************************************)
(* The clock.                                                              *)
(***************************************************************************)
Tick ==
    /\ Ready
    /\ ticks < MaxTicks
    /\ ticks' = ticks + 1
    /\ now' = AddMinutes(now, TickMinutes)
    /\ UNCHANGED <<backendVars, notesFile, others, invVars>>

(***************************************************************************)
(* Specifications.                                                         *)
(*   Spec          the router: every tool through execute_tool, the        *)
(*                 backend and the endpoints answering.                    *)
(*   ScheduleSpec  the calendar operations, through the router and called  *)
(*                 directly, with another writer of the calendar and a     *)
(*                 moving clock; the note store holds an empty list.       *)
(***************************************************************************)
CalendarAnswers ==
    \/ GetEventsReturns
    \/ GetAllEventsReturns
    \/ UpdateResolved
    \/ DeleteResolved
    \/ InsertReturns
    \/ UpdateReturns
    \/ DeleteReturns

RouterCalendar ==
    \/ CalendarServiceFails
    \/ CreateEvent
    \/ UpdateEvent
    \/ DeleteEvent
    \/ GetEvents
    \/ GetAllEvents

Next ==
    \/ ConstructorRaises
    \/ AddNote
    \/ GetNote
    \/ GetAllNotes
    \/ DeleteNote
    \/ GetDateAndTime
    \/ GetWeather
    \/ UnknownTool
    \/ RemoteCall
    \/ RemoteResponse
    \/ RouterCalendar
    \/ CalendarAnswers
    \/ OtherInvocationRuns
    \/ Continue

Spec == Init /\ [][Next]_vars

ScheduleInit == Init /\ notesFile = NotesFile("list", <<>>)

ScheduleNext ==
    \/ RouterCalendar
    \/ DirectCreate
    \/ DirectUpdate
    \/ DirectDelete
    \/ CalendarAnswers
    \/ ExternalWrite
    \/ Tick
    \/ Continue

ScheduleSpec == ScheduleInit /\ [][ScheduleNext]_vars

\* delete_event invocations one after the other, through the router and
\* called directly, as many as there are, and no other writer.
DeletionNext ==
    \/ DeleteEventCall
    \/ DirectDeleteCall
    \/ DeleteResolved
    \/ DeleteReturns
    \/ Continue

DeletionSpec == ScheduleInit /\ [][DeletionNext]_vars

\* The note tools from an empty note store, with the clock.
NotesInit == Init /\ notesFile = NotesFile("list", <<>>)

NotesNext ==
    \/ AddNote
    \/ GetNote
    \/ GetAllNotes
    \/ DeleteNote
    \/ Tick
    \/ Continue

NotesSpec == NotesInit /\ [][NotesNext]_vars

(***************************************************************************)
(* Properties.                                                             *)
(***************************************************************************)
Returned == pc = "done"
RouterReturned == pc = "done" /\ caller = "router"

\* The patch update_event works on, and the event it found.
Patch == Get(params.updated_details, NoDetails)
Target == events[1]
TextFields == {"summary", "description", "location"}
TimeFields == {"start", "end"}
\* The value a field has in the existing event ('' for a text field it lacks).
Existing(k) == IF Target[k] = Absent THEN EmptyStr ELSE Target[k]

\* C1: every invocation of execute_tool returns a mapping, whatever the
\* tool name, the arguments and the failures of handlers and backends.
C1_ReturnsMapping == RouterReturned => result.shape = "mapping"

\* C2: a tool name that is neither local nor a key of CLOUD_FUNCTIONS gets
\* the result {"error": "Unknown tool: <name>"}, whatever the arguments
\* and the state of the note store.
C2_UnknownToolError ==
    (RouterReturned /\ tool \notin LocalTools \cup CLOUD_FUNCTIONS)
        => result = ErrorResult("Unknown tool: ", tool)

\* C3: every result execute_tool returns, error results included, has a
\* language entry.
C3_LanguageInEveryResult == RouterReturned => result.language # Absent

\* C4: when the handler produced a mapping, the result has language.code
\* in SUPPORTED_LANGUAGES and language.name equal to that entry's name.
C4_LanguageFromTable ==
    (RouterReturned /\ handler = "mapping") =>
        /\ result.language # Absent
        /\ result.language.code \in DOMAIN SUPPORTED_LANGUAGES
        /\ result.language.name = SUPPORTED_LANGUAGES[result.language.code].name

\* A mapping came back for a query the detector reads as Dutch, which the
\* table does not hold, and one for a Japanese query.
C4_Witness ==
    /\ RouterReturned
    /\ handler = "mapping"
    /\ params.query = QueryDutch
    /\ result.language = [code |-> "en", name |-> "English"]

\* C5: update_event and delete_event called with neither a non-empty name
\* nor a date issue no backend call, and return success = false with the
\* validation message.
NoCriteria ==
    /\ ~Truthy(Get(params.event_name, None))
    /\ params.event_date \in {Absent, None}

EarliestFirst(found) ==
    \A i \in 1..Len(found) : NotAfter(EventStart(found[1]), EventStart(found[i]))

C6_FirstMatchIsTarget ==
    [][/\ (pc = "list" /\ pc' \in {"update", "delete"}) =>
              /\ calls'[Len(calls')].id = events'[1].id
              /\ EarliestFirst(events')
       /\ (pc = "delete" /\ pc' = "done" /\ result'.success = Bool(TRUE)) =>
              /\ calendar' = {e \in calendar : e.id # events[1].id}
              /\ Cardinality(calendar') = Cardinality(calendar) - 1
              /\ result'.data.deleted_event = delete_snapshot(events[1])]_vars

\* Two events matched, the first starting before the second, and the
\* delete succeeded.
C6_Witness ==
    /\ Returned
    /\ tool = "delete_event"
    /\ Len(events) >= 2
    /\ Before(EventStart(events[1]), EventStart(events[2]))
    /\ result.success = Bool(TRUE)
    /\ result.data.deleted_event.id = events[1].id

\* C7 as stated: every field absent from the patch has in the body exactly
\* the value of the existing event, sub-fields of start and end included.
C7_AbsentFieldsVerbatim ==
    pc = "update" =>
        \A k \in EventFields : Patch[k] = Absent => body[k] = Existing(k)

\* C7 amended: summary, description and location absent from the patch
\* keep the value of the existing event; start and end absent from the
\* patch keep its dateTime, and their timeZone is set to Asia/Kolkata.
C7_AbsentFieldsKept ==
    pc = "update" =>
        /\ \A k \in TextFields : Patch[k] = Absent => body[k] = Existing(k)
        /\ \A k \in TimeFields : Patch[k] = Absent =>
              body[k] = [Existing(k) EXCEPT !.timeZone = Txt(TIMEZONE)]

\* The patch changes the summary only and the existing event has a
\* location and a start in another zone.
C7_Witness ==
    /\ pc = "update"
    /\ Patch = Details([summary |-> TextB])
    /\ body.summary = TextB
    /\ Target.location # Absent
    /\ body.location = Target.location
    /\ Target.start.timeZone # Txt(TIMEZONE)
    /\ body.start.dateTime = Target.start.dateTime

\* C8 as stated: a text field given as null or as the empty string is not
\* in the body.
C8_EmptyValueRemoved ==
    pc = "update" =>
        \A k \in TextFields : Patch[k] \in {None, EmptyStr} => body[k] = Absent

\* C8 amended: a text field given as null is not in the body; one given as
\* the empty string is in the body as the empty string.
C8_NullRemoved ==
    pc = "update" =>
        \A k \in TextFields :
            /\ Patch[k] = None => body[k] = Absent
            /\ Patch[k] = EmptyStr => body[k] = EmptyStr

C8_Witness ==
    /\ pc = "update"
    /\ Patch.summary = None
    /\ Patch.location = EmptyStr
    /\ Target.summary # Absent
    /\ body.summary = Absent

\* C9: the body of every update call has start and end; a start or end
\* the patch gives as null or as the empty string is the existing event's.
C9_StartEndPresent ==
    pc = "update" =>
        \A k \in TimeFields :
            /\ body[k] # Absent
            /\ Patch[k] \in {None, EmptyStr} => body[k] = Target[k]

C9_Witness ==
    /\ pc = "update"
    /\ Patch.start = None
    /\ body.start = Target.start
    /\ body.end # Absent

\* C10: the body create_event and update_event write has, in start and
\* end, the timezone of the locale resolved from the query.
C10_LocaleTimezone ==
    (caller = "router" /\ pc \in {"insert", "update"}) =>
        \A k \in TimeFields :
            (body[k] # Absent /\ IsDict(body[k])) =>
                body[k].timeZone = Txt(get_language_config(detected_lang).timezone)

\* A backend call of the invocation raised.
SomeCallRaised == \E i \in 1..Len(calls) : calls[i].raised
SignalsFailure(r) == r.success = Bool(FALSE) \/ r.error # Absent

\* C11: when a calendar backend call of an invocation raised, the result
\* execute_tool returns has success = false or an error key.
C11_BackendFailureSignalled ==
    (RouterReturned /\ SomeCallRaised) => SignalsFailure(result)

\* C12: an update call that the backend does not reject succeeds whatever
\* another writer did to the event since the list query: the result is a
\* success and the stored event has the summary, description, location,
\* start and end of the body built from the listed copy.
C12_LastWriteWins ==
    [][(pc = "update" /\ pc' = "done" /\ ~calls'[Len(calls')].raised) =>
          /\ result'.success = Bool(TRUE)
          /\ \E e \in calendar' :
                /\ e.id = LastCall.id
                /\ \A k \in TextFields : e[k] = body[k]
                /\ \A k \in TimeFields : e[k] = StoredTime(body[k])
                /\ result'.data.updated_event = e]_vars

\* The other writer changed summary and location of the target after it
\* was listed, the update succeeded, and the change is gone.
C12_Witness ==
    /\ Returned
    /\ tool = "update_event"
    /\ result.success = Bool(TRUE)
    /\ externals = 1
    /\ writes = 1
    /\ Cardinality(calendar) = Cardinality(InitialCalendar)
    /\ events[1].summary # TextMoved
    /\ \A e \in calendar : e.summary # TextMoved /\ e.location # TextMoved

\* The arguments of a get_events invocation and the window of its list call.
SearchName == Get(params.event_name, None)
Searching == tool = "get_events" /\ calls # <<>>

SearchStart == ensure_ist_timezone(FromIsoFormat(params.start_date))

Candidates == BackendList(calendar, LastCall.timeMin, LastCall.timeMax)
LowerSummary(e) == Lower(Get(e.summary, EmptyStr).chars)

\* C15: get_events with a name returns exactly the candidates of the
\* backend whose summary contains the name, case ignored, in the order
\* of the backend.
C15_NameFilterExact ==
    [][(pc = "list" /\ pc' = "done" /\ tool = "get_events" /\ Truthy(SearchName)
          /\ ~calls'[1].raised) =>
          result'.data.events =
              SelectSeq(Candidates, LAMBDA e : Contains(LowerSummary(e), Lower(SearchName.chars)))]_vars

\* The name "sync" finds "Sync" and "sync up", in this order, and leaves
\* out the third event of the window.
C15_Witness ==
    /\ Returned
    /\ Searching
    /\ SearchName = NameSync
    /\ Len(result.data.events) = 2
    /\ result.data.events[1].summary = Sync
    /\ result.data.events[2].summary = SyncUp
    /\ \E e \in calendar : e.summary = Standup

\* C16: for get_events and get_all_events the router returns a mapping
\* with the keys events and language only; events is the sequence the
\* resolver returned (for a search without name: the candidates of the
\* backend, in its order) and language is the entry of the detected code.
C16_SequenceWrapped ==
    [][(pc = "list" /\ pc' = "done" /\ caller = "router"
          /\ tool \in {"get_events", "get_all_events"}) =>
          /\ result'.shape = "mapping"
          /\ result'.error = Absent /\ result'.success = Absent /\ result'.message = Absent
          /\ DOMAIN result'.data = {"events"}
          /\ result'.language = [code |-> detected_lang,
                                 name |-> SUPPORTED_LANGUAGES[detected_lang].name]
          /\ (~calls'[1].raised /\ (tool = "get_all_events" \/ ~Truthy(SearchName))) =>
                result'.data.events = Candidates]_vars

\* get_all_events for a Japanese query returned the three events in order.
C16_Witness ==
    /\ RouterReturned
    /\ tool = "get_all_events"
    /\ params.query = QueryJapanese
    /\ result.language = [code |-> "ja", name |-> "Japanese"]
    /\ Len(result.data.events) = 3
    /\ result.data.events[1].summary = Sync
    /\ result.data.events[3].summary = Standup

\* A text that is not an ISO-8601 date, and the places of the arguments
\* where a date text stands.
NotIso(v) == IsText(v) /\ "iso" \notin DOMAIN v
MalformedDate ==
    \/ \E k \in {"start_date", "end_date", "event_date"} : NotIso(params[k])
    \/ \E k \in TimeFields : IsDict(params[k]) /\ NotIso(params[k].dateTime)
    \/ /\ params.updated_details # Absent
       /\ \E k \in TimeFields :
             /\ IsDict(params.updated_details[k])
             /\ NotIso(params.updated_details[k].dateTime)

\* C17: an invocation of create_event, update_event, delete_event or
\* get_events whose arguments hold a date text that is not ISO-8601 issues
\* no insert, update or delete call and returns a mapping with an error
\* key or success = false.
C17_MalformedDateRejected ==
    (pc # "idle" /\ MalformedDate
       /\ tool \in {"create_event", "update_event", "delete_event", "get_events"}) =>
        /\ pc \in {"list", "done"}
        /\ \A i \in 1..Len(calls) : calls[i].op = "list"
        /\ Returned => (result.shape = "mapping" /\ SignalsFailure(result))

\* update_event found its target and then met the start that does not parse.
C17_Witness ==
    /\ Returned
    /\ tool = "update_event"
    /\ params.updated_details # Absent
    /\ IsDict(params.updated_details.start)
    /\ params.updated_details.start.dateTime = Malformed
    /\ events # <<>>
    /\ Len(calls) = 1
    /\ result.success = Bool(FALSE)

\* The query of the invocation, and the codes a lookup is tried with:
\* those of the table and some the detector gives that are not in it.
Query == Get(params.query, EmptyStr)
English == SUPPORTED_LANGUAGES["en"]
Codes == DOMAIN SUPPORTED_LANGUAGES \cup {"nl", "zh-cn", "LangDetectException", ""}
FallsBack(q) ==
    IF ~IsStr(q) \/ q = EmptyStr THEN TRUE
    ELSE detect(q) = "LangDetectException" \/ detect(q) \notin DOMAIN SUPPORTED_LANGUAGES

\* C18: a query that is empty, not a text, not detectable or detected as
\* a code outside SUPPORTED_LANGUAGES resolves to the English profile;
\* the resolved code and the profile of any code are in the table.
C18_EnglishFallback ==
    /\ (pc # "idle" /\ caller = "router") =>
          /\ detected_lang \in DOMAIN SUPPORTED_LANGUAGES
          /\ FallsBack(Query) =>
                (detected_lang = "en" /\ get_language_config(detected_lang) = English)
    /\ \A c \in Codes :
          /\ \E d \in DOMAIN SUPPORTED_LANGUAGES : get_language_config(c) = SUPPORTED_LANGUAGES[d]
          /\ c \notin DOMAIN SUPPORTED_LANGUAGES => get_language_config(c) = English

\* A query detected as zh-cn, which the table does not hold (it holds zh),
\* answered with the English entry and the English default timezone.
C18_Witness ==
    /\ RouterReturned
    /\ tool = "get_date_and_time"
    /\ params.query = QueryChinese
    /\ detected_lang = "en"
    /\ result.language = [code |-> "en", name |-> "English"]

\* C19: when the insert call of create_event raises, the result is
\* {success: false, message, created_event: null} (with the language entry
\* when it comes through the router) and the calendar is as before.
C19_InsertFailure ==
    [][(pc = "insert" /\ pc' = "done" /\ calls'[Len(calls')].raised) =>
          /\ result'.shape = "mapping"
          /\ result'.success = Bool(FALSE)
          /\ result'.message # Absent
          /\ result'.data = None
          /\ result'.error = Absent
          /\ calendar' = calendar]_vars

C19_Witness ==
    /\ Returned
    /\ tool = "create_event"
    /\ Len(calls) = 1
    /\ calls[1].op = "insert"
    /\ calls[1].raised
    /\ result.success = Bool(FALSE)
    /\ calendar = InitialCalendar

\* C20: when the resolver of update_event or delete_event matches no
\* event, the result is success = false with the message 'No event found
\* with ...', no update or delete call is issued and the calendar is as
\* before; an update or delete call is pending only for a match.
C20_NoMatchNoWrite ==
    [][/\ (pc = "list" /\ pc' = "done" /\ tool \in {"update_event", "delete_event"}
            /\ events' = <<>>) =>
              /\ result'.success = Bool(FALSE)
              /\ result'.message = Msg("No event found with ", "criteria")
              /\ result'.data = None
              /\ \A i \in 1..Len(calls') : calls'[i].op = "list"
              /\ calendar' = calendar
       /\ pc' \in {"update", "delete"} => events' # <<>>]_vars

\* The list call returned, and no event has the name asked for.
C20_Witness ==
    /\ Returned
    /\ tool = "delete_event"
    /\ params.event_name = NameNoMatch
    /\ events = <<>>
    /\ Len(calls) = 1
    /\ ~calls[1].raised
    /\ result.success = Bool(FALSE)
    /\ calendar # {}

\* The criteria of an update_event or delete_event invocation that has
\* issued its list call.
Resolving == tool \in {"update_event", "delete_event"} /\ calls # <<>>
TargetName == Get(params.event_name, None)
NoTargetDate == params.event_date \in {Absent, None}

\* C21: update_event and delete_event given a name and no date query the
\* backend with timeMin = now - 365 days and timeMax = now + 365 days.
C21_NameOnlyTargetWindow ==
    (Resolving /\ Truthy(TargetName) /\ NoTargetDate) =>
        /\ calls[1].timeMin = Iso(now.day - 365, now.sec, now.us, "+05:30")
        /\ calls[1].timeMax = Iso(now.day + 365, now.sec, now.us, "+05:30")

\* C22: when execute_tool has returned, the arguments mapping of the caller,
\* nested mappings included (start, end, updated_details), equals the
\* mapping the caller passed.
C22_RequestUnchanged == RouterReturned => params = request


\* The write calls of the invocation, and whether a body carries both times.
WriteCalls == {i \in DOMAIN calls : calls[i].op \in {"insert", "update"}}
BothTimes(b) == BackendTimeOk(b.start) /\ BackendTimeOk(b.end)

\* C23: the body of every insert or update call handed to the backend has
\* start.dateTime not after end.dateTime when both are present.
C23_StartNotAfterEnd ==
    \A i \in WriteCalls :
        BothTimes(calls[i].body) =>
            NotAfter(BackendTime(calls[i].body.start), BackendTime(calls[i].body.end))


\* The end argument of a get_events invocation as the function reads it:
\* in Asia/Kolkata (a text without offset is taken as a time of that zone,
\* one with an offset is converted).
SearchEnd == ensure_ist_timezone(FromIsoFormat(params.end_date))

AtEndpoint == pc = "http"
AtCalendar == pc \in {"list", "insert", "update", "delete"} \/ calls # <<>>

AtBackendCall == pc \in {"list", "insert", "update", "delete"}

\* C26: while an invocation waits for a calendar backend call (list,
\* insert, update or delete), another invocation of the event loop that
\* has steps left can take one; so it can between the list call of
\* update_event and its update call.
C26_SuspendsAtBackendCall ==
    (AtBackendCall /\ others < MaxOthers) => ENABLED OtherInvocationRuns


\* The date an update_event or delete_event invocation was given, as the
\* function reads it: in Asia/Kolkata.
HasTargetDate == params.event_date \notin {Absent, None, EmptyStr}
TargetDate ==
    ensure_ist_timezone(IF IsText(params.event_date)
                        THEN FromIsoFormat(params.event_date)
                        ELSE params.event_date)

\* C27: update_event and delete_event given a date D query the backend,
\* when hour and minute of D are 0, with timeMin = 00:00:00 of the day of D
\* - 5 minutes and timeMax = 23:59:59.999999 of that day + 5 minutes, and
\* otherwise with timeMin = D - 10 minutes and timeMax = D + 10 minutes.
C27_DateTargetWindow ==
    (Resolving /\ HasTargetDate) =>
        IF TargetDate.sec < 60
        THEN /\ calls[1].timeMin = Iso(TargetDate.day - 1, At(23, 55), 0, "+05:30")
             /\ calls[1].timeMax = Iso(TargetDate.day + 1, At(0, 4) + 59, 999999, "+05:30")
        ELSE /\ calls[1].timeMin = IsoFormat(AddMinutes(TargetDate, -10))
             /\ calls[1].timeMax = IsoFormat(AddMinutes(TargetDate, 10))

\* A date at midnight with microseconds, given as a datetime object.
C27_Witness ==
    /\ Returned
    /\ Resolving
    /\ params.event_date = MidnightObject
    /\ calls[1].timeMin = Iso(Today, At(23, 55), 0, "+05:30")
    /\ calls[1].timeMax = Iso(Today + 2, At(0, 4) + 59, 999999, "+05:30")


\* A delete_event invocation given a name and no date, and the events of
\* the calendar the name matches (all of them lie inside the window of
\* SEARCH_WINDOW_DAYS around now).
NameOnlyDelete == tool = "delete_event" /\ Truthy(TargetName) /\ NoTargetDate
Matching == {e \in calendar : Contains(LowerSummary(e), Lower(TargetName.chars))}

\* C28: with no other writer, a successful delete_event by name removes
\* the earliest-starting event the name matches, and only that one, and
\* returns its snapshot, so that successive invocations take the matches
\* in the order of their starts; when no event matches any more, the
\* invocation returns 'No event found' and makes no delete call.
C28_SuccessiveDeletes ==
    [][NameOnlyDelete =>
          /\ (pc = "delete" /\ pc' = "done" /\ result'.success = Bool(TRUE)) =>
                 \E r \in Matching :
                     /\ \A e \in Matching : NotAfter(EventStart(r), EventStart(e))
                     /\ calendar' = calendar \ {r}
                     /\ result'.data.deleted_event = delete_snapshot(r)
          /\ (pc = "list" /\ Matching = {}) =>
                 /\ pc' = "done"
                 /\ result'.message = Msg("No event found with ", "criteria")
                 /\ \A i \in 1..Len(calls') : calls'[i].op = "list"
                 /\ calendar' = calendar]_vars

\* Both events the name matches are gone after two deletions, and the
\* next invocation has found nothing.
C28_Witness ==
    /\ Returned
    /\ NameOnlyDelete
    /\ TargetName = NameSync
    /\ writes = 2
    /\ calendar = {Event3}
    /\ ~calls[1].raised
    /\ result.message = Msg("No event found with ", "criteria")


\* The notes of the store, and a note tool answering with success.
StoredNotes == notesFile.notes
UniqueNames(notes) ==
    \A i, j \in 1..Len(notes) : notes[i].note_name = notes[j].note_name => i = j
NoteToolSucceeds(t) ==
    pc = "idle" /\ pc' = "done" /\ tool' = t /\ result'.success = Bool(TRUE)

\* C29: from an empty note store, the store never holds two notes of one
\* name; a successful add_note on a name of the store changes the content
\* of that note, keeps its created_at and leaves the other notes as they
\* are; after a successful delete_note no note has the name, and the other
\* notes are as they were.
C29_OneNotePerName ==
    [][/\ UniqueNames(notesFile'.notes)
       /\ (NoteToolSucceeds("add_note")
             /\ \E i \in 1..Len(StoredNotes) : StoredNotes[i].note_name = params'.note_name) =>
              /\ Len(notesFile'.notes) = Len(StoredNotes)
              /\ \A i \in 1..Len(StoredNotes) :
                     IF StoredNotes[i].note_name = params'.note_name
                     THEN /\ notesFile'.notes[i].note_name = params'.note_name
                          /\ notesFile'.notes[i].content = params'.content
                          /\ notesFile'.notes[i].created_at = StoredNotes[i].created_at
                     ELSE notesFile'.notes[i] = StoredNotes[i]
       /\ NoteToolSucceeds("delete_note") =>
              /\ \A i \in 1..Len(notesFile'.notes) :
                     notesFile'.notes[i].note_name # params'.note_name
              /\ notesFile'.notes =
                     SelectSeq(StoredNotes, LAMBDA n : n.note_name # params'.note_name)
              /\ Len(notesFile'.notes) < Len(StoredNotes)]_vars

\* Two notes in the store, the first rewritten after the clock moved.
C29_Witness ==
    /\ Returned
    /\ tool = "add_note"
    /\ result.success = Bool(TRUE)
    /\ Len(StoredNotes) = 2
    /\ StoredNotes[1].note_name = params.note_name
    /\ StoredNotes[1].content = Txt("b")
    /\ StoredNotes[1].created_at # StoredNotes[1].updated_at
    /\ StoredNotes[2].created_at = StoredNotes[2].updated_at


\* What the note store holds: a missing file holds no note, as a file with
\* the empty list does.
StoreContents(file) == IF file.kind = "missing" THEN NotesFile("list", <<>>) ELSE file

\* C30: an invocation of a tool other than add_note and delete_note
\* leaves what the note store holds as it is, whatever the file is: missing,
\* a list of notes, or something else.
C30_NoteStoreUntouched ==
    [][(pc = "idle" /\ pc' # "idle" /\ tool' \notin {"add_note", "delete_note"}) =>
          StoreContents(notesFile') = StoreContents(notesFile)]_vars

====
